---------------------------- MODULE Spec2Model ----------------------------
(***************************************************************************)
(* Model of fix_cai_mcp_bug.py: the locator find_cai_mcp_file, the patcher *)
(* fix_cai_mcp_bug and the entry point main.                               *)
(*                                                                         *)
(* Text is a sequence of one-character strings.  The file system holds,   *)
(* for every candidate site-packages directory d, the entry at             *)
(* d/cai/repl/commands/mcp.py (files[d]) and the entry at that path with   *)
(* ".backup" appended (backups[d]).  An entry is absent, a directory or a  *)
(* regular file with its stored characters.                                *)
(***************************************************************************)
EXTENDS Integers, Sequences, FiniteSets, TLC

\* ------------------------------------------------------------- bounds
\* Number of directories site.getsitepackages() returns.
NumSite == 2
\* File contents at start are concatenations of at most MaxTokens tokens.
MaxTokens == 3
\* Number of times the script is started.
MaxRuns == 2
\* Number of times the package file is replaced from outside between runs.
MaxInstalls == 1

\* ----------------------------------------------------------- literals
\* 'server.params.get('
BAD == <<"s","e","r","v","e","r",".","p","a","r","a","m","s",".","g","e","t","(">>
\* 'getattr(server.params, '
GOOD == <<"g","e","t","a","t","t","r","(","s","e","r","v","e","r",".","p","a","r","a","m","s",","," ">>
\* 'getattr(server.params,'
GETATTR == <<"g","e","t","a","t","t","r","(","s","e","r","v","e","r",".","p","a","r","a","m","s",",">>
\* os.linesep of the POSIX layout the script assumes (lib/pythonX.Y/site-packages)
linesep == <<"\n">>

\* ------------------------------------------------- str.count / replace
Matches(s, sub, i) ==
    /\ i + Len(sub) - 1 <= Len(s)
    /\ SubSeq(s, i, i + Len(sub) - 1) = sub

RECURSIVE countFrom(_, _, _)
countFrom(s, sub, i) ==
    IF i + Len(sub) - 1 > Len(s) THEN 0
    ELSE IF Matches(s, sub, i) THEN 1 + countFrom(s, sub, i + Len(sub))
    ELSE countFrom(s, sub, i + 1)

\* A scan that starts one character late.
str_count_late(s, sub) == countFrom(s, sub, 2)

\* s.count(sub): non-overlapping occurrences, scanning left to right
str_count(s, sub) == countFrom(s, sub, 1)

RECURSIVE replaceFrom(_, _, _, _, _)
\* max is the number of replacements still allowed (-1: no limit)
replaceFrom(s, old, new, i, max) ==
    IF i > Len(s) THEN <<>>
    ELSE IF max # 0 /\ Matches(s, old, i)
         THEN new \o replaceFrom(s, old, new, i + Len(old), IF max > 0 THEN max - 1 ELSE max)
         ELSE <<s[i]>> \o replaceFrom(s, old, new, i + 1, max)

\* s.replace(old, new, 1): only the first occurrence
str_replace_first(s, old, new) == replaceFrom(s, old, new, 1, 1)

\* s.replace(old, new): every occurrence, left to right
str_replace(s, old, new) == replaceFrom(s, old, new, 1, -1)

\* ------------------------------------------------------ text-mode I/O
RECURSIVE universalNewlines(_, _)
\* open(path, 'r').read(): "\r\n" and a lone "\r" are read as "\n"
universalNewlines(data, i) ==
    IF i > Len(data) THEN <<>>
    ELSE IF data[i] = "\r"
         THEN <<"\n">> \o universalNewlines(data,
                  IF i < Len(data) /\ data[i + 1] = "\n" THEN i + 2 ELSE i + 1)
         ELSE <<data[i]>> \o universalNewlines(data, i + 1)

ReadText(data) == universalNewlines(data, 1)

RECURSIVE translateNewlines(_, _)
translateNewlines(text, i) ==
    IF i > Len(text) THEN <<>>
    ELSE (IF text[i] = "\n" THEN linesep ELSE <<text[i]>>) \o translateNewlines(text, i + 1)

\* open(path, 'w').write(text): "\n" is written as os.linesep
WriteText(text) == translateNewlines(text, 1)

\* ------------------------------------------------------- file system
Absent == [kind |-> "absent", data |-> <<>>]
Directory == [kind |-> "dir", data |-> <<>>]
RegularFile(data) == [kind |-> "file", data |-> data]

\* os.path.exists is true of anything found at the path
os_path_exists(entry) == entry.kind # "absent"

SiteDir(i) == <<"site", i>>
UserDir == <<"user", 0>>
\* os.path.join(sys.prefix, 'lib', 'pythonX.Y', 'site-packages')
VenvDir == <<"venv", 0>>
None == <<"None", 0>>

Dirs == {SiteDir(i) : i \in 1..NumSite} \cup {UserDir, VenvDir}

\* site.getsitepackages()
getsitepackages == [i \in 1..NumSite |-> SiteDir(i)]
\* site.getusersitepackages()
getusersitepackages == UserDir

\* The three interpreter set-ups: the base installation, a venv, and a legacy
\* virtualenv (which sets sys.real_prefix and leaves base_prefix = prefix).
SysEnvs ==
    { [prefix |-> "/usr",  base_prefix |-> "/usr",  real_prefix |-> "None"],
      [prefix |-> "/venv", base_prefix |-> "/usr",  real_prefix |-> "None"],
      [prefix |-> "/venv", base_prefix |-> "/venv", real_prefix |-> "/usr"] }

\* Adds the environment directory whatever the interpreter set-up.
InVenvAlways(s) == TRUE

\* hasattr(sys,'real_prefix') or (hasattr(sys,'base_prefix') and base_prefix != prefix)
InVenv(s) ==
    \/ s.real_prefix # "None"
    \/ (s.base_prefix # "None" /\ s.base_prefix # s.prefix)

\* The user directory first.
SearchPathsUserFirst(s) ==
    <<getusersitepackages>> \o getsitepackages
        \o (IF InVenv(s) THEN <<VenvDir>> ELSE <<>>)

SearchPaths(s) ==
    getsitepackages \o <<getusersitepackages>>
        \o (IF InVenv(s) THEN <<VenvDir>> ELSE <<>>)

RECURSIVE firstExisting(_, _, _)
firstExisting(paths, fs, i) ==
    IF i > Len(paths) THEN None
    ELSE IF os_path_exists(fs[paths[i]]) THEN paths[i]
    ELSE firstExisting(paths, fs, i + 1)

find_cai_mcp_file(fs, s) == firstExisting(SearchPaths(s), fs, 1)

\* ------------------------------------------------------------- state
VARIABLES
    sys,            \* the interpreter's prefix, base_prefix and real_prefix
    files,          \* entry at <dir>/cai/repl/commands/mcp.py, per directory
    backups,        \* entry at <dir>/cai/repl/commands/mcp.py.backup
    pc,             \* position of the running script
    file_path,      \* fix_cai_mcp_bug: directory of the located file, or None
    content,        \* fix_cai_mcp_bug: the text buffer
    before_count,   \* fix_cai_mcp_bug: occurrences found before the fix
    after_count,    \* fix_cai_mcp_bug: occurrences found on re-reading
    getattr_count,  \* fix_cai_mcp_bug: corrected calls found on re-reading
    result,         \* value fix_cai_mcp_bug returned
    success,        \* main: the flag it received
    runs,           \* completed starts of the script
    installs,       \* outside replacements of the package file so far
    start_files,    \* history: files when the current run started
    start_backups,  \* history: backups when the current run started
    writes,         \* history: files the current run has written, in order
    created,        \* history: how often each backup file was written, all runs
    path,           \* history: stages the current run went through
    prev            \* history: how the previous run ended

vars == <<sys, files, backups, pc, file_path, content, before_count, after_count,
          getattr_count, result, success, runs, installs, start_files,
          start_backups, writes, created, path, prev>>

locals == <<file_path, content, before_count, after_count, getattr_count, result>>
history == <<start_files, start_backups, writes, created, path, prev>>

\* ------------------------------------------------------ initial states
PIECE_PARAMS == <<"s","e","r","v","e","r",".","p","a","r","a","m","s">>
PIECE_GET == <<".","g","e","t","(">>

\* Pieces the initial file contents are assembled from.
Tokens == {BAD, GOOD, PIECE_PARAMS, PIECE_GET, <<"\r">>, <<"\n">>, <<"x">>}

RECURSIVE Flatten(_, _)
Flatten(ts, i) == IF i > Len(ts) THEN <<>> ELSE ts[i] \o Flatten(ts, i + 1)

Contents == UNION {{Flatten(ts, 1) : ts \in [1..n -> Tokens]} : n \in 0..MaxTokens}

\* What a re-installation of the package may put in place of the file.
InstallContents == {<<>>, GOOD, BAD \o <<"\r", "\n">> \o BAD}

NoPrev == [valid |-> FALSE, regular |-> FALSE, fixed |-> 0,
           files |-> <<>>, backups |-> <<>>]

InitRest ==
    /\ backups = [d \in Dirs |-> Absent]
    /\ pc = "START"
    /\ file_path = None
    /\ content = <<>>
    /\ before_count = 0
    /\ after_count = 0
    /\ getattr_count = 0
    /\ result = FALSE
    /\ success = FALSE
    /\ runs = 0
    /\ installs = 0
    /\ start_files = files
    /\ start_backups = backups
    /\ writes = <<>>
    /\ created = [d \in Dirs |-> 0]
    /\ path = <<>>
    /\ prev = NoPrev

\* One installed copy, of any content, under the base installation.
InitPatch ==
    /\ sys = [prefix |-> "/usr", base_prefix |-> "/usr", real_prefix |-> "None"]
    /\ \E c \in Contents :
         files = [d \in Dirs |-> IF d = SiteDir(1) THEN RegularFile(c) ELSE Absent]
    /\ InitRest

\* Any layout of the candidate directories, under any interpreter set-up.
InitLocate ==
    /\ sys \in SysEnvs
    /\ files \in [Dirs -> {Absent, Directory, RegularFile(BAD)}]
    /\ InitRest

Init == InitPatch \/ InitLocate

\* ------------------------------------------------------------ actions
\* open(path, 'r') succeeds on a regular file only (IsADirectoryError otherwise)
CanOpenRead(entry) == entry.kind = "file"

\* A backup step that copies whether or not a backup is there.
NeedsBackupAlways(entry) == TRUE

\* line 63: if not os.path.exists(backup_path)
NeedsBackup(entry) == ~os_path_exists(entry)

\* A zero test that never stops the run.
NothingToFixNever(n) == FALSE

\* line 79: if before_count == 0
NothingToFix(n) == n = 0

\* lines 65-67: backup.write(original.read())
BackupData(data) == WriteText(ReadText(data))

\* line 47: file_path = find_cai_mcp_file()
Locate ==
    /\ pc = "START"
    /\ runs < MaxRuns
    /\ file_path' = find_cai_mcp_file(files, sys)
    /\ pc' = "LOCATE"
    /\ start_files' = files
    /\ start_backups' = backups
    /\ writes' = <<>>
    /\ path' = <<"START", "LOCATE">>
    /\ UNCHANGED <<sys, files, backups, content, before_count, after_count,
                   getattr_count, result, success, runs, installs, created, prev>>

\* lines 52-56: nothing located
NotFound ==
    /\ pc = "LOCATE"
    /\ file_path = None
    /\ result' = FALSE
    /\ pc' = "RETURNED"
    /\ path' = path \o <<"NOT_FOUND", "END_FAILURE">>
    /\ UNCHANGED <<sys, files, backups, file_path, content, before_count,
                   after_count, getattr_count, success, runs, installs,
                   start_files, start_backups, writes, created, prev>>

\* lines 61-68: create the backup unless one exists
Backup ==
    /\ pc = "LOCATE"
    /\ file_path # None
    /\ IF NeedsBackup(backups[file_path])
       THEN IF CanOpenRead(files[file_path])
            THEN /\ backups' = [backups EXCEPT
                        ![file_path] = RegularFile(BackupData(files[file_path].data))]
                 /\ writes' = Append(writes, "backup")
                 /\ created' = [created EXCEPT ![file_path] = @ + 1]
                 /\ pc' = "BACKUP"
                 /\ path' = path \o <<"FOUND", "BACKUP">>
            ELSE /\ pc' = "FAULT"
                 /\ path' = path \o <<"FOUND", "BACKUP", "FAULT">>
                 /\ UNCHANGED <<backups, writes, created>>
       ELSE /\ pc' = "BACKUP"
            /\ path' = path \o <<"FOUND", "BACKUP">>
            /\ UNCHANGED <<backups, writes, created>>
    /\ UNCHANGED <<sys, files, file_path, content, before_count, after_count,
                   getattr_count, result, success, runs, installs, start_files,
                   start_backups, prev>>

\* lines 70-77: read the file and count the calls to fix
Count ==
    /\ pc = "BACKUP"
    /\ IF CanOpenRead(files[file_path])
       THEN /\ content' = ReadText(files[file_path].data)
            /\ before_count' = str_count(content', BAD)
            /\ pc' = "COUNT"
            /\ path' = Append(path, "COUNT")
       ELSE /\ pc' = "FAULT"
            /\ path' = path \o <<"COUNT", "FAULT">>
            /\ UNCHANGED <<content, before_count>>
    /\ UNCHANGED <<sys, files, backups, file_path, after_count, getattr_count,
                   result, success, runs, installs, start_files, start_backups,
                   writes, created, prev>>

\* lines 79-81: nothing to fix
Zero ==
    /\ pc = "COUNT"
    /\ NothingToFix(before_count)
    /\ result' = TRUE
    /\ pc' = "RETURNED"
    /\ path' = path \o <<"ZERO", "END_SUCCESS">>
    /\ UNCHANGED <<sys, files, backups, file_path, content, before_count,
                   after_count, getattr_count, success, runs, installs,
                   start_files, start_backups, writes, created, prev>>

\* line 87: content = content.replace(...)
Replace ==
    /\ pc = "COUNT"
    /\ ~NothingToFix(before_count)
    /\ content' = str_replace(content, BAD, GOOD)
    /\ pc' = "REPLACE"
    /\ path' = path \o <<"NONZERO", "REPLACE">>
    /\ UNCHANGED <<sys, files, backups, file_path, before_count, after_count,
                   getattr_count, result, success, runs, installs, start_files,
                   start_backups, writes, created, prev>>

\* lines 90-91: write the fixed content
Write ==
    /\ pc = "REPLACE"
    /\ files' = [files EXCEPT ![file_path] = RegularFile(WriteText(content))]
    /\ writes' = Append(writes, "target")
    /\ pc' = "WRITE"
    /\ path' = Append(path, "WRITE")
    /\ UNCHANGED <<sys, backups, file_path, content, before_count, after_count,
                   getattr_count, result, success, runs, installs, start_files,
                   start_backups, created, prev>>

\* lines 93-115: re-read, recount, report
Verify ==
    /\ pc = "WRITE"
    /\ LET fixed_content == ReadText(files[file_path].data) IN
         /\ after_count' = str_count(fixed_content, BAD)
         /\ getattr_count' = str_count(fixed_content, GETATTR)
    /\ result' = (after_count' = 0)
    /\ pc' = "RETURNED"
    /\ path' = path \o <<"VERIFY", IF after_count' = 0 THEN "END_SUCCESS" ELSE "END_WARNING">>
    /\ UNCHANGED <<sys, files, backups, file_path, content, before_count,
                   success, runs, installs, start_files, start_backups, writes,
                   created, prev>>

\* lines 117-134: main receives the flag and prints the summary
Main ==
    /\ pc = "RETURNED"
    /\ success' = result
    /\ pc' = "END"
    /\ UNCHANGED <<sys, files, backups, locals, runs, installs, history>>

\* The script is started again, after it ended or died of the uncaught error.
Rerun ==
    /\ pc \in {"END", "FAULT"}
    /\ runs + 1 < MaxRuns
    /\ runs' = runs + 1
    /\ pc' = "START"
    /\ prev' = [valid |-> TRUE,
                regular |-> file_path # None /\ files[file_path].kind = "file",
                fixed |-> before_count,
                files |-> files, backups |-> backups]
    /\ file_path' = None
    /\ content' = <<>>
    /\ before_count' = 0
    /\ after_count' = 0
    /\ getattr_count' = 0
    /\ result' = FALSE
    /\ success' = FALSE
    /\ writes' = <<>>
    /\ path' = <<>>
    /\ start_files' = files
    /\ start_backups' = backups
    /\ UNCHANGED <<sys, files, backups, installs, created>>

\* Environment, not the script: between two runs the package is installed
\* again over an installed copy (pip install cai-framework, line 55).
Reinstall ==
    /\ pc = "START"
    /\ runs >= 1
    /\ installs < MaxInstalls
    /\ \E d \in Dirs, c \in InstallContents :
         /\ files[d].kind = "file"
         /\ files' = [files EXCEPT ![d] = RegularFile(c)]
    /\ installs' = installs + 1
    /\ prev' = [prev EXCEPT !.valid = FALSE]
    /\ start_files' = files'
    /\ UNCHANGED <<sys, backups, pc, locals, success, runs, start_backups,
                   writes, created, path>>

Next ==
    \/ Locate
    \/ NotFound
    \/ Backup
    \/ Count
    \/ Zero
    \/ Replace
    \/ Write
    \/ Verify
    \/ Main
    \/ Rerun
    \/ Reinstall

Spec == Init /\ [][Next]_vars

TypeOK ==
    /\ pc \in {"START", "LOCATE", "BACKUP", "COUNT", "REPLACE", "WRITE",
               "RETURNED", "END", "FAULT"}
    /\ file_path \in Dirs \cup {None}
    /\ result \in BOOLEAN
    /\ runs \in 0..MaxRuns

\* ---------------------------------------------------- shared notions
\* The run has handed a flag back to main.
Returned == pc \in {"RETURNED", "END"}

\* The run located a regular file.
LocatedFile == file_path # None /\ start_files[file_path].kind = "file"

\* Positions where sub occurs in s.
Occurrences(s, sub) == {i \in 1..Len(s) : Matches(s, sub, i)}

\* w is c with the text old at every position of occ replaced by new, and
\* every other character kept, in order.
IsSubstitution(c, w, old, new) ==
    LET occ == Occurrences(c, old)
        grow == Len(new) - Len(old)
        before(i) == Cardinality({p \in occ : p < i})
        covered(i) == \E p \in occ : p <= i /\ i < p + Len(old)
    IN /\ Len(w) = Len(c) + grow * Cardinality(occ)
       /\ \A i \in 1..Len(c) : ~covered(i) => w[i + grow * before(i)] = c[i]
       /\ \A p \in occ :
            SubSeq(w, p + grow * before(p), p + grow * before(p) + Len(new) - 1) = new

\* ------------------------------------------------------------- claims
\* C1: a run that locates a regular file holding N occurrences of the bad
\* literal leaves that file with none of them and with at least N occurrences
\* of 'getattr(server.params,'; with N = 3 the function returns True.
C1_PatchRemovesEveryBadCall ==
    (Returned /\ LocatedFile) =>
        LET N == str_count(start_files[file_path].data, BAD)
            after == files[file_path].data
        IN /\ str_count(after, BAD) = 0
           /\ str_count(after, GETATTR) >= N
           /\ (N = 3 => result = TRUE)

C1_Witness ==
    /\ pc = "END"
    /\ LocatedFile
    /\ str_count(start_files[file_path].data, BAD) = 3
    /\ str_count(files[file_path].data, GETATTR) = 3
    /\ "target" \in {writes[i] : i \in 1..Len(writes)}
    /\ success = TRUE

\* C2: when the script is run again on the file a first run located, with
\* nothing changed in between, the second run counts no occurrence, writes
\* neither the target nor the backup, returns True, and leaves both files as
\* the first run left them.
C2_SecondRunChangesNothing ==
    (prev.valid /\ prev.regular /\ pc # "START") =>
        /\ pc \notin {"REPLACE", "WRITE", "FAULT"}
        /\ writes = <<>>
        /\ files = prev.files
        /\ backups = prev.backups
        /\ (pc \in {"COUNT", "RETURNED", "END"} => before_count = 0)
        /\ (Returned => result = TRUE)

C2_Witness ==
    /\ pc = "END"
    /\ prev.valid
    /\ prev.regular
    /\ prev.fixed = 2
    /\ success = TRUE

\* C3: a backup that exists when a run starts is the same at every later
\* point of the run, whatever the target holds, and no backup file is written
\* more than once over all runs.
C3_BackupWrittenOnce ==
    \A d \in Dirs :
        /\ os_path_exists(start_backups[d]) => backups[d] = start_backups[d]
        /\ created[d] <= 1

C3_Witness ==
    /\ pc = "END"
    /\ runs >= 1
    /\ installs >= 1
    /\ LocatedFile
    /\ before_count > 0
    /\ created[file_path] = 1
    /\ backups[file_path].kind = "file"
    /\ ReadText(start_files[file_path].data) # ReadText(backups[file_path].data)

\* C4 (as claimed): when no candidate directory holds the target file, the
\* locator returns None and the run returns False, having created no backup
\* and written nothing.
C4_NoFileMeansNotFound ==
    (pc \in {"RETURNED", "END", "FAULT"}
       /\ \A i \in 1..Len(SearchPaths(sys)) :
             start_files[SearchPaths(sys)[i]].kind # "file") =>
        /\ file_path = None
        /\ pc # "FAULT"
        /\ result = FALSE
        /\ writes = <<>>
        /\ files = start_files
        /\ backups = start_backups

\* C5: when the located file holds no occurrence of the bad literal the run
\* never writes it, leaves a backup that was there untouched, and returns True.
C5_AlreadyFixedWritesNothing ==
    (pc # "START" /\ LocatedFile
        /\ str_count(start_files[file_path].data, BAD) = 0) =>
        /\ pc \notin {"REPLACE", "WRITE", "FAULT"}
        /\ files = start_files
        /\ "target" \notin {writes[i] : i \in 1..Len(writes)}
        /\ (os_path_exists(start_backups[file_path]) =>
                backups = start_backups /\ writes = <<>>)
        /\ (Returned => result = TRUE)

C5_Witness ==
    /\ pc = "END"
    /\ LocatedFile
    /\ str_count(start_files[file_path].data, BAD) = 0
    /\ str_count(start_files[file_path].data, GETATTR) > 0
    /\ os_path_exists(start_backups[file_path])
    /\ backups[file_path].data # files[file_path].data
    /\ success = TRUE

\* The installation the interpreter was derived from.
BaseInstallation(s) == IF s.real_prefix # "None" THEN s.real_prefix ELSE s.base_prefix

\* Place of a directory in the claimed order: system, then user, then environment.
Priority(d) == IF d[1] = "site" THEN d[2] ELSE IF d = UserDir THEN NumSite + 1 ELSE NumSite + 2

\* The claimed candidates: the environment directory only in an environment
\* whose prefix differs from that of its base installation.
Candidates(s) ==
    {SiteDir(i) : i \in 1..NumSite} \cup {UserDir}
        \cup (IF s.prefix # BaseInstallation(s) THEN {VenvDir} ELSE {})

\* C6: the locator returns the existing candidate path that comes first in the
\* order system directories, user directory, environment directory, the last
\* being a candidate only in an environment whose prefix differs from its
\* base; it returns None when no candidate path exists.
C6_FirstExistingInPriorityOrder ==
    (pc # "START") =>
        LET existing == {d \in Candidates(sys) : os_path_exists(start_files[d])}
        IN IF existing = {} THEN file_path = None
           ELSE /\ file_path \in existing
                /\ \A e \in existing : Priority(file_path) <= Priority(e)

C6_Witness ==
    /\ pc = "LOCATE"
    /\ file_path = SiteDir(2)
    /\ ~os_path_exists(files[SiteDir(1)])
    /\ os_path_exists(files[UserDir])
    /\ os_path_exists(files[VenvDir])
    /\ VenvDir \in Candidates(sys)

\* C7 (as claimed): after a run that returned True the target holds no
\* occurrence of the bad literal, and a backup this run created holds exactly
\* what the target held before the run.
C7_BackupEqualsOriginal ==
    (Returned /\ result = TRUE) =>
        /\ str_count(files[file_path].data, BAD) = 0
        /\ ("backup" \in {writes[i] : i \in 1..Len(writes)} =>
                backups[file_path].data = start_files[file_path].data)

\* C8: the count reported is the number of places where 'server.params.get('
\* occurs in the text read, and the text written is that text with each of
\* them replaced by 'getattr(server.params, ' and every other character kept.
C8_LiteralSubstitution ==
    /\ pc = "COUNT" =>
          before_count = Cardinality(Occurrences(content, BAD))
    /\ pc = "REPLACE" =>
          LET c == ReadText(files[file_path].data)
          IN /\ before_count = Cardinality(Occurrences(c, BAD))
             /\ IsSubstitution(c, content, BAD, GOOD)
    /\ pc = "WRITE" =>
          /\ files[file_path].data = content
          /\ IsSubstitution(ReadText(start_files[file_path].data),
                            files[file_path].data, BAD, GOOD)

C8_Witness ==
    /\ pc = "WRITE"
    /\ before_count = 2
    /\ Len(files[file_path].data) > 2 * Len(GOOD)
    /\ files[file_path].data[1] = "x"

\* What the claimed check accepts: a regular file.
IsRegularFile(entry) == entry.kind = "file"

\* C9 (as claimed): a path is returned only for a candidate whose target is a
\* regular file; a candidate holding something else there is skipped.
C9_OnlyRegularFilesReturned ==
    (pc # "START") =>
        LET regular == {i \in 1..Len(SearchPaths(sys)) :
                            IsRegularFile(start_files[SearchPaths(sys)[i]])}
        IN IF regular = {} THEN file_path = None
           ELSE \E i \in regular :
                    /\ file_path = SearchPaths(sys)[i]
                    /\ \A j \in regular : i <= j

\* The stage sequences of the claimed state machine.
ClaimedPaths ==
    { <<"START", "LOCATE", "NOT_FOUND", "END_FAILURE">>,
      <<"START", "LOCATE", "FOUND", "BACKUP", "COUNT", "ZERO", "END_SUCCESS">>,
      <<"START", "LOCATE", "FOUND", "BACKUP", "COUNT", "NONZERO", "REPLACE",
        "WRITE", "VERIFY", "END_SUCCESS">>,
      <<"START", "LOCATE", "FOUND", "BACKUP", "COUNT", "NONZERO", "REPLACE",
        "WRITE", "VERIFY", "END_WARNING">> }

\* C10 (as claimed): every run goes through the stages of the state machine
\* and ends by returning a boolean; after the write both counts are taken
\* again and a mismatch in either ends in the warning outcome.
C10_EveryRunReturnsAFlag ==
    /\ \E full \in ClaimedPaths :
          Len(path) <= Len(full) /\ SubSeq(full, 1, Len(path)) = path
    /\ pc \in {"RETURNED", "END", "FAULT"} => (pc # "FAULT" /\ path \in ClaimedPaths)
    /\ (Returned /\ Len(path) = 10) =>
          /\ after_count = str_count(ReadText(files[file_path].data), BAD)
          /\ getattr_count = str_count(ReadText(files[file_path].data), GETATTR)
          /\ (path[10] = "END_WARNING") = (after_count # 0 \/ getattr_count < before_count)

=============================================================================
